---- MODULE Spec2Model ----
(***************************************************************************)
(* Model of macdev's manifest/lock reconciliation engine                   *)
(* (src/src/environment.rs, src/src/manifest.rs, src/src/homebrew.rs).     *)
(*                                                                         *)
(* Strings are sequences of tokens; the token "@" is the character the     *)
(* code searches with rfind('@') and split('@').  The external manager     *)
(* (brew) is the set of installed formulas, the set of linked formulas     *)
(* and the set of registered taps; each of its calls can fail, which an    *)
(* operation draws as the oracle o.                                        *)
(***************************************************************************)
EXTENDS Integers, Sequences, FiniteSets, TLC

VARIABLES
    localm,     \* project -> [exists, packages]: .macdev/manifest.toml
    globalm,    \* [packages, impure, gc, taps]: ~/.config/macdev/manifest.toml
    profile,    \* project -> (link name -> target): .macdev/profile/bin
    lock,       \* project -> [exists, packages, deps, impure]: .macdev/manifest.lock
    installed,  \* formulas the external manager has installed
    linked,     \* formulas linked into the global PATH
    tapped,     \* taps registered with the external manager
    nops,       \* the number of commands run so far
    procs,      \* invocation -> [pc, gm, spec, impure]: the add commands that
                \* run at the same time, each with its in-memory global manifest
    arg,        \* the arguments of a call of a function that touches no file
    ret         \* what that call returned

vars == <<localm, globalm, profile, lock, installed, linked, tapped, nops, procs,
          arg, ret>>

----------------------------------------------------------------------------
(* Bounds of the model *)

\* the number of commands of a run
MaxOps == 6
\* the number of add commands started where two run at the same time
MaxRuns == 3
\* the length of the identifiers parse_package_spec is called with
MaxLen == 4

\* the project directories a command can run in
Projects == {1, 2}

A == <<"a">>
A1 == <<"a", "@", "1">>
B == <<"b">>
Star == <<"*">>

\* the identifiers a user passes to add and remove
Specs == {A, A1, B}
\* the formulas the external manager knows
Formulas == {A, A1, B}
TapNames == {<<"t">>}

\* brew deps --formula: a and a@1 depend on b
Deps(f) == IF f \in {A, A1} THEN <<B>> ELSE << >>
\* the entries of <prefix>/bin of an installed formula
BinFiles(f) == IF f = A THEN {"x", "tool"}
               ELSE IF f = A1 THEN {"x"}
               ELSE IF f = B THEN {"y", "tool"}
               ELSE {}

----------------------------------------------------------------------------
(* Maps (HashMap) and sequences *)

EmptyMap == [k \in {} |-> Star]
MapPut(m, k, v) == [x \in (DOMAIN m) \cup {k} |-> IF x = k THEN v ELSE m[x]]
MapDel(m, k) == [x \in (DOMAIN m) \ {k} |-> m[x]]
Range(s) == {s[i] : i \in DOMAIN s}

\* the iteration orders of a HashMap's key set
Orders(S) == {s \in [1..Cardinality(S) -> S] : Range(s) = S}

----------------------------------------------------------------------------
(* Strings *)

AtPositions(s) == {i \in 1..Len(s) : s[i] = "@"}
Max(S) == CHOOSE x \in S : \A y \in S : y <= x
Min(S) == CHOOSE x \in S : \A y \in S : x <= y

\* str::rfind('@'): 0 stands for None
rfind(s) == IF AtPositions(s) = {} THEN 0 ELSE Max(AtPositions(s))

\* s.split('@').next().unwrap()
base_name(s) == IF AtPositions(s) = {} THEN s
                ELSE SubSeq(s, 1, Min(AtPositions(s)) - 1)

\* format!("{}@{}", n, v)
format_at(n, v) == n \o <<"@">> \o v

has_at(s) == AtPositions(s) # {}

None == [some |-> FALSE, val |-> << >>]
Some(v) == [some |-> TRUE, val |-> v]

\* parse_package_spec that takes the version after the first @
parse_package_spec_first(s) ==
    IF AtPositions(s) # {}
    THEN [package |-> s,
          version |-> Some(SubSeq(s, Min(AtPositions(s)) + 1, Len(s)))]
    ELSE [package |-> s, version |-> None]

parse_package_spec(s) ==
    IF rfind(s) # 0
    THEN LET name == SubSeq(s, 1, rfind(s) - 1)
             version == SubSeq(s, rfind(s) + 1, Len(s))
         IN  [package |-> format_at(name, version), version |-> Some(version)]
    ELSE [package |-> s, version |-> None]

\* the spec rebuilt from a manifest entry (sync, install, rebuild_profile,
\* generate_lock all use the same expression)
manifest_spec(name, version) ==
    IF version = Star THEN name ELSE format_at(name, version)

----------------------------------------------------------------------------
(* The world an operation works on, as one record; calls collects the      *)
(* external calls and the file writes the operation makes, in order        *)

World == [lm |-> localm, gm |-> globalm, prof |-> profile, lk |-> lock,
          inst |-> installed, lnk |-> linked, tpd |-> tapped, calls |-> << >>]

Log(w, c) == [w EXCEPT !.calls = Append(@, c)]

NoManifest == [exists |-> FALSE, packages |-> EmptyMap]
NoLock == [exists |-> FALSE, packages |-> EmptyMap, deps |-> {}, impure |-> {}]
DefaultGlobal == [packages |-> EmptyMap, impure |-> {}, gc |-> EmptyMap, taps |-> {}]

\* Manifest::save_global
save_global(w, gm) == Log([w EXCEPT !.gm = gm], <<"save_global">>)
\* Manifest::save
save(w, p, packages) ==
    Log([w EXCEPT !.lm[p] = [exists |-> TRUE, packages |-> packages]],
        <<"save", p>>)

\* add_package that drops the version
add_package_unversioned(m, name, version) ==
    [m EXCEPT !.packages = MapPut(@, name, Star)]

\* add_tap that records nothing
add_tap_dropped(m, name) == m

\* add_impure that records the name in the packages section as well
add_impure_also_pure(m, name) ==
    [m EXCEPT !.impure = @ \cup {name}, !.packages = MapPut(@, name, Star)]

\* remove_package that leaves the impure section alone
remove_package_pure_only(m, name) ==
    [m EXCEPT !.packages = MapDel(@, name), !.casks = @ \ {name}]

\* Manifest::remove_package, on a manifest with its casks section
remove_package(m, name) ==
    [m EXCEPT !.packages = MapDel(@, name), !.impure = @ \ {name},
              !.casks = @ \ {name}]

\* Manifest::add_package, add_impure, add_tap, remove_tap
add_package(m, name, version) == [m EXCEPT !.packages = MapPut(@, name, version)]
add_impure(m, name) == [m EXCEPT !.impure = @ \cup {name}]
add_tap(m, name) == [m EXCEPT !.taps = @ \cup {name}]
remove_tap(m, name) == [m EXCEPT !.taps = @ \ {name}]

----------------------------------------------------------------------------
(* The external manager (homebrew.rs) *)

\* the outcomes of the external calls of one operation
Oracle == [brew : BOOLEAN, instOk : SUBSET Formulas, unlinkOk : BOOLEAN,
           infoOk : BOOLEAN, tapOk : BOOLEAN, uninstOk : SUBSET Formulas,
           listOk : BOOLEAN]

is_package_installed(w, f) == f \in w.inst

\* brew unlink: the result is ignored by every caller
unlink_package(w, f, o) ==
    LET w1 == Log(w, <<"unlink", f>>)
    IN  IF o.unlinkOk /\ f \in w.inst
        THEN [w1 EXCEPT !.lnk = @ \ {f}]
        ELSE w1

\* brew install: installs and links the formula and its missing dependencies,
\* then unlinks the formula when link is false
install_package(w, f, link, o) ==
    LET w1 == Log(w, <<"install", f>>)
    IN  IF f \notin o.instOk
        THEN [w |-> w1, ok |-> FALSE]
        ELSE LET new == ({f} \cup Range(Deps(f))) \ w.inst
                 w2 == [w1 EXCEPT !.inst = @ \cup new, !.lnk = @ \cup new]
             IN  [w |-> IF link THEN w2 ELSE unlink_package(w2, f, o),
                  ok |-> TRUE]

\* brew --prefix: fails when the formula is not installed
package_prefix_ok(w, f) == f \in w.inst

ensure_package(w, f, link, o) ==
    LET r == IF ~o.brew THEN [w |-> w, ok |-> FALSE]
             ELSE IF ~is_package_installed(w, f)
             THEN install_package(w, f, link, o)
             ELSE IF ~link
                  THEN [w |-> unlink_package(w, f, o), ok |-> TRUE]
                  ELSE [w |-> w, ok |-> TRUE]
    IN  IF r.ok THEN [w |-> r.w, ok |-> package_prefix_ok(r.w, f)] ELSE r

\* uninstall_package that uninstalls the formula of the base name
uninstall_base(w, f, o) ==
    LET b == SubSeq(f, 1, IF \E i \in DOMAIN f : f[i] = "@"
                          THEN (CHOOSE i \in DOMAIN f :
                                   f[i] = "@" /\ \A j \in 1..(i - 1) : f[j] # "@") - 1
                          ELSE Len(f))
        w1 == Log(w, <<"uninstall", b>>)
    IN  IF b \in w.inst /\ b \in o.uninstOk
        THEN [w |-> [w1 EXCEPT !.inst = @ \ {b}, !.lnk = @ \ {b}], ok |-> TRUE]
        ELSE [w |-> w1, ok |-> FALSE]

\* brew uninstall
uninstall_package(w, f, o) ==
    LET w1 == Log(w, <<"uninstall", f>>)
    IN  IF f \in w.inst /\ f \in o.uninstOk
        THEN [w |-> [w1 EXCEPT !.inst = @ \ {f}, !.lnk = @ \ {f}], ok |-> TRUE]
        ELSE [w |-> w1, ok |-> FALSE]

\* cleanup left out
cleanup_skipped(w) == w

\* brew cleanup
cleanup(w) == Log(w, <<"cleanup">>)

\* the list of brew tap has the tap; when the listing exits with a failure
\* (listOk of the oracle is false) the callers get false whatever the list
is_tap_tapped(w, t) == t \in w.tpd

brew_tap(w, t, o) ==
    LET w1 == Log(w, <<"tap", t>>)
    IN  IF o.brew /\ o.tapOk
        THEN [w |-> [w1 EXCEPT !.tpd = @ \cup {t}], ok |-> TRUE]
        ELSE [w |-> w1, ok |-> FALSE]

brew_untap(w, t, o) ==
    LET w1 == Log(w, <<"untap", t>>)
    IN  IF o.tapOk THEN [w |-> [w1 EXCEPT !.tpd = @ \ {t}], ok |-> TRUE]
        ELSE [w |-> w1, ok |-> FALSE]

----------------------------------------------------------------------------
(* Profile materializer *)

\* link_directory over the formula's bin entries: an existing link of the
\* same name is removed and re-created
create_symlinks(prof, f) ==
    [l \in (DOMAIN prof) \cup BinFiles(f) |->
        IF l \in BinFiles(f) THEN <<f, l>> ELSE prof[l]]

EmptyProfile == [l \in {} |-> <<A, "x">>]

RECURSIVE relink(_, _, _, _)
\* the loop of rebuild_profile over the manifest's packages in order ord
relink(w, prof, packages, ord) ==
    IF ord = << >> THEN [prof |-> prof, ok |-> TRUE]
    ELSE LET spec == manifest_spec(Head(ord), packages[Head(ord)])
         IN  IF ~package_prefix_ok(w, spec)
             THEN [prof |-> prof, ok |-> FALSE]
             ELSE relink(w, create_symlinks(prof, spec), packages, Tail(ord))

\* rebuild_profile of project p from the manifest's packages
rebuild_profile(w, p, packages, ord) ==
    LET r == relink(w, EmptyProfile, packages, ord)
    IN  [w |-> [w EXCEPT !.prof[p] = r.prof], ok |-> r.ok]

----------------------------------------------------------------------------
(* Lock generator (manifest.rs) *)

\* homebrew::package_info: the formula identifier the manager reports
package_info_ok(f, o) == o.infoOk /\ f \in Formulas
package_info_formula(f) == f

lock_of(packages, o) ==
    [exists |-> TRUE,
     packages |-> [n \in DOMAIN packages |->
                      package_info_formula(manifest_spec(n, packages[n]))],
     deps |-> {nd \in (DOMAIN packages) \X Formulas :
                  /\ nd[2] \in Range(Deps(manifest_spec(nd[1], packages[nd[1]])))
                  /\ package_info_ok(nd[2], o)},
     impure |-> {}]

\* generate_lock that also locks the packages section of the global manifest
generate_lock_global(w, p, o) ==
    IF ~w.lm[p].exists THEN w
    ELSE LET packages == [n \in DOMAIN w.lm[p].packages \cup DOMAIN w.gm.packages |->
                             IF n \in DOMAIN w.lm[p].packages
                             THEN w.lm[p].packages[n] ELSE w.gm.packages[n]]
         IN  IF DOMAIN w.lm[p].packages = {} THEN w
             ELSE IF ~o.infoOk THEN w
                  ELSE Log([w EXCEPT !.lk[p] = lock_of(packages, o)],
                           <<"save_lock", p>>)

\* generate_lock run in project p; every caller ignores its result
generate_lock(w, p, o) ==
    IF ~w.lm[p].exists THEN w
    ELSE LET packages == w.lm[p].packages
         IN  IF DOMAIN packages = {} THEN w
             ELSE IF \E n \in DOMAIN packages :
                        ~package_info_ok(manifest_spec(n, packages[n]), o)
                  THEN w
                  ELSE Log([w EXCEPT !.lk[p] = lock_of(packages, o)],
                           <<"save_lock", p>>)

----------------------------------------------------------------------------
(* add (environment.rs) *)

\* tracked without the look into the gc section
tracked_no_gc(gm, dep) ==
    LET dep_base == base_name(dep)
    IN  \/ dep \in DOMAIN gm.packages \/ dep_base \in DOMAIN gm.packages
        \/ dep \in gm.impure \/ dep_base \in gm.impure

tracked(gm, dep) ==
    LET dep_base == base_name(dep)
        in_packages == dep \in DOMAIN gm.packages \/ dep_base \in DOMAIN gm.packages
        in_impure == dep \in gm.impure \/ dep_base \in gm.impure
        in_gc == dep \in DOMAIN gm.gc \/ dep_base \in DOMAIN gm.gc
    IN  in_packages \/ in_impure \/ in_gc

RECURSIVE unlink_deps(_, _, _, _)
\* the dependency loop of add, over the in-memory global manifest gm
unlink_deps(w, gm, deps, o) ==
    IF deps = << >> THEN w
    ELSE unlink_deps(IF ~tracked(gm, Head(deps))
                     THEN unlink_package(w, Head(deps), o)
                     ELSE w,
                     gm, Tail(deps), o)

\* the gc eviction at the start of add
evict_gc(gm, name) == [gm EXCEPT !.gc = MapDel(@, name)]

\* add_precheck without the check of the local manifest
add_precheck_brew_only(w, p, impure, o) ==
    IF ~o.brew THEN "no_brew" ELSE "ok"

\* the checks add makes before it installs anything
add_precheck(w, p, impure, o) ==
    IF ~o.brew THEN "no_brew"
    ELSE IF ~impure /\ ~w.lm[p].exists THEN "no_manifest"
    ELSE "ok"

\* add from the parse of the spec on
add_body(w, p, package_spec, impure, o) ==
    LET parsed == parse_package_spec(package_spec)
        package == parsed.package
        name == base_name(package)
        gm1 == evict_gc(w.gm, name)
        e == ensure_package(w, package, impure, o)
    IN  IF ~e.ok THEN [w |-> e.w, res |-> "install_failed"]
        ELSE IF impure
        THEN LET gm2 == add_impure(gm1, name)
                 w1 == save_global(e.w, gm2)
                 w2 == unlink_deps(w1, gm2, Deps(package), o)
             IN  [w |-> generate_lock(w2, p, o), res |-> "ok"]
        ELSE LET w1 == [e.w EXCEPT !.prof[p] = create_symlinks(@, package)]
                 ver == IF parsed.version.some THEN parsed.version.val ELSE Star
                 w2 == save(w1, p, MapPut(w1.lm[p].packages, name, ver))
                 gm2 == add_package(gm1, name, ver)
                 w3 == save_global(w2, gm2)
                 w4 == unlink_deps(w3, gm2, Deps(package), o)
             IN  [w |-> generate_lock(w4, p, o), res |-> "ok"]

\* add that writes the gc eviction to the global manifest before it installs
add_evict_saved(w, p, package_spec, impure, o) ==
    IF add_precheck(w, p, impure, o) # "ok"
    THEN [w |-> w, res |-> add_precheck(w, p, impure, o)]
    ELSE add_body(save_global(w, evict_gc(w.gm,
                      base_name(parse_package_spec(package_spec).package))),
                  p, package_spec, impure, o)

\* add(package_spec, impure) run in project p
add(w, p, package_spec, impure, o) ==
    IF add_precheck(w, p, impure, o) # "ok"
    THEN [w |-> w, res |-> add_precheck(w, p, impure, o)]
    ELSE add_body(w, p, package_spec, impure, o)

----------------------------------------------------------------------------
(* remove (environment.rs) *)

\* the section remove takes the entry from
remove_is_impure(gm, package) ==
    LET package_base == base_name(package)
        exact_pure == package \in DOMAIN gm.packages
        exact_impure == package \in gm.impure
        base_pure == package_base \in DOMAIN gm.packages
        base_impure == package_base \in gm.impure
    IN  IF has_at(package)
        THEN exact_impure \/ (~exact_pure /\ ~base_pure /\ base_impure)
        ELSE exact_impure \/ (~exact_pure /\ base_impure)

\* remove_tracked that also accepts a name found in the gc section
remove_tracked_or_gc(gm, package) ==
    \/ package \in DOMAIN gm.packages
    \/ package \in gm.impure
    \/ base_name(package) \in DOMAIN gm.packages
    \/ base_name(package) \in gm.impure
    \/ \E k \in DOMAIN gm.gc : base_name(k) = base_name(package)

remove_tracked(gm, package) ==
    \/ package \in DOMAIN gm.packages
    \/ package \in gm.impure
    \/ base_name(package) \in DOMAIN gm.packages
    \/ base_name(package) \in gm.impure

\* the key of the gc entry of a pure package
pure_gc_key(package_base, ver) ==
    IF ver = Star THEN package_base ELSE format_at(package_base, ver)

\* the impure branch: impure -> gc
remove_impure(gm, package) ==
    LET package_base == base_name(package)
        key == IF package \in gm.impure THEN package ELSE package_base
        gc_key == IF has_at(package) THEN package ELSE package_base
    IN  [gm EXCEPT !.impure = @ \ {key}, !.gc = MapPut(@, gc_key, Star)]

\* the pure branch on the global manifest: packages -> gc
remove_pure(gm, package) ==
    LET package_base == base_name(package)
    IN  IF package \in DOMAIN gm.packages
        THEN [gm EXCEPT !.packages = MapDel(@, package),
                        !.gc = MapPut(@, pure_gc_key(package_base, gm.packages[package]),
                                      gm.packages[package])]
        ELSE IF package_base \in DOMAIN gm.packages
        THEN [gm EXCEPT !.packages = MapDel(@, package_base),
                        !.gc = MapPut(@, pure_gc_key(package_base, gm.packages[package_base]),
                                      gm.packages[package_base])]
        ELSE gm

\* remove(package) run in project p; ord is the iteration order of the
\* local manifest left after the removal
remove(w, p, package, o, ord) ==
    LET package_base == base_name(package)
        local == w.lm[p]
        gm == w.gm
    IN  IF ~remove_tracked(gm, package) THEN [w |-> w, res |-> "not_tracked"]
        ELSE IF remove_is_impure(gm, package)
        THEN LET w1 == save_global(w, remove_impure(gm, package))
             IN  [w |-> generate_lock(w1, p, o), res |-> "ok"]
        ELSE
          LET pkg_key == IF local.exists /\ package \in DOMAIN local.packages
                         THEN package ELSE package_base
              in_local == local.exists /\ pkg_key \in DOMAIN local.packages
              left == MapDel(local.packages, pkg_key)
              w1 == IF in_local THEN save(w, p, left) ELSE w
              rb == IF in_local THEN rebuild_profile(w1, p, left, ord)
                    ELSE [w |-> w1, ok |-> TRUE]
          IN  IF ~rb.ok THEN [w |-> rb.w, res |-> "rebuild_failed"]
              ELSE LET w2 == save_global(rb.w, remove_pure(gm, package))
                   IN  [w |-> generate_lock(w2, p, o), res |-> "ok"]

\* the iteration orders remove can see in project p
remove_orders(w, p, package) ==
    LET local == w.lm[p]
        pkg_key == IF local.exists /\ package \in DOMAIN local.packages
                   THEN package ELSE base_name(package)
    IN  Orders((DOMAIN local.packages) \ {pkg_key})

----------------------------------------------------------------------------
(* check (environment.rs) *)

\* check that does not look at the global manifest
check_local_only(w, p) ==
    IF ~w.lm[p].exists THEN "exit1"
    ELSE IF DOMAIN w.prof[p] = {} THEN "exit1"
    ELSE "ok"

\* check(quiet) run in project p: "exit1" is std::process::exit(1)
check(w, p) ==
    IF ~w.lm[p].exists THEN "exit1"
    ELSE LET missing == {name \in DOMAIN w.lm[p].packages :
                            name \notin DOMAIN w.gm.packages}
         IN  IF missing # {} THEN "exit1"
             ELSE IF DOMAIN w.prof[p] = {} THEN "exit1"
             ELSE "ok"

----------------------------------------------------------------------------

(* gc (environment.rs) *)

RECURSIVE uninstall_all(_, _, _)
\* the uninstall loop: [w, done] with done the names whose uninstall succeeded
uninstall_all(w, ord, o) ==
    IF ord = << >> THEN [w |-> w, done |-> {}]
    ELSE LET u == uninstall_package(w, Head(ord), o)
             r == uninstall_all(u.w, Tail(ord), o)
         IN  [w |-> r.w, done |-> IF u.ok THEN r.done \cup {Head(ord)} ELSE r.done]

\* gc_evict with the whole section cleared
gc_evict_all(gcmap, to_remove) == [k \in {} |-> gcmap[k]]

\* the names gc evicts, given those whose uninstall succeeded
gc_evict(gcmap, to_remove) == [k \in (DOMAIN gcmap) \ to_remove |-> gcmap[k]]

\* gc() run in project p; ord is the iteration order of the gc section
gc(w, p, o, ord, cleanupOk) ==
    LET gm == w.gm
    IN  IF DOMAIN gm.gc = {} THEN [w |-> w, res |-> "ok"]
        ELSE LET u == uninstall_all(w, ord, o)
                 w1 == save_global(u.w, [gm EXCEPT !.gc = gc_evict(@, u.done)])
                 w2 == cleanup(w1)
             IN  IF ~cleanupOk THEN [w |-> w2, res |-> "cleanup_failed"]
                 ELSE [w |-> generate_lock(w2, p, o), res |-> "ok"]

----------------------------------------------------------------------------
(* install (environment.rs) *)

\* the formula install() installs for the local entry name -> version
\* install_spec that ignores the lock
install_spec_unlocked(lk, name, version) == manifest_spec(name, version)

install_spec(lk, name, version) ==
    IF lk.exists /\ name \in DOMAIN lk.packages
    THEN lk.packages[name]
    ELSE manifest_spec(name, version)

RECURSIVE install_loop_new_only(_, _, _, _, _, _)
\* install_loop that links only the formulas it had to install
install_loop_new_only(w, p, gm, lk, ord, o) ==
    IF ord = << >> THEN [w |-> w, gm |-> gm, ok |-> TRUE]
    ELSE LET name == Head(ord)
             version == w.lm[p].packages[name]
             spec == install_spec(lk, name, version)
             e == ensure_package(w, spec, FALSE, o)
         IN  IF ~e.ok THEN [w |-> e.w, gm |-> gm, ok |-> FALSE]
             ELSE install_loop_new_only(
                      IF is_package_installed(w, spec) THEN e.w
                      ELSE [e.w EXCEPT !.prof[p] = create_symlinks(@, spec)],
                      p, add_package(gm, name, version), lk, Tail(ord), o)

RECURSIVE install_loop(_, _, _, _, _, _)
\* the loop of install over the local packages in order ord: [w, gm, ok]
install_loop(w, p, gm, lk, ord, o) ==
    IF ord = << >> THEN [w |-> w, gm |-> gm, ok |-> TRUE]
    ELSE LET name == Head(ord)
             version == w.lm[p].packages[name]
             spec == install_spec(lk, name, version)
             e == ensure_package(w, spec, FALSE, o)
         IN  IF ~e.ok THEN [w |-> e.w, gm |-> gm, ok |-> FALSE]
             ELSE install_loop([e.w EXCEPT !.prof[p] = create_symlinks(@, spec)],
                               p, add_package(gm, name, version), lk, Tail(ord), o)

\* install that regenerates the lock whether or not one existed
install_relock(w, p, o, ord) ==
    IF ~w.lm[p].exists THEN [w |-> w, res |-> "no_manifest"]
    ELSE LET r == install_loop(w, p, w.gm, w.lk[p], ord, o)
         IN  IF ~r.ok THEN [w |-> r.w, res |-> "install_failed"]
             ELSE LET w1 == IF DOMAIN w.lm[p].packages # {}
                            THEN save_global(r.w, r.gm) ELSE r.w
                  IN  [w |-> generate_lock(w1, p, o), res |-> "ok"]

\* install() run in project p
install(w, p, o, ord) ==
    IF ~w.lm[p].exists THEN [w |-> w, res |-> "no_manifest"]
    ELSE LET lk == w.lk[p]
             r == install_loop(w, p, w.gm, lk, ord, o)
         IN  IF ~r.ok THEN [w |-> r.w, res |-> "install_failed"]
             ELSE LET w1 == IF DOMAIN w.lm[p].packages # {}
                            THEN save_global(r.w, r.gm) ELSE r.w
                  IN  [w |-> IF ~lk.exists THEN generate_lock(w1, p, o) ELSE w1,
                       res |-> "ok"]

----------------------------------------------------------------------------
(* sync (environment.rs) *)

RECURSIVE sync_taps(_, _, _)
sync_taps(w, ord, o) ==
    IF ord = << >> THEN [w |-> w, res |-> "ok"]
    ELSE IF o.brew /\ o.listOk /\ is_tap_tapped(w, Head(ord))
         THEN sync_taps(w, Tail(ord), o)
         ELSE LET t == brew_tap(w, Head(ord), o)
              IN  IF ~t.ok THEN [w |-> t.w, res |-> "tap_failed"]
                  ELSE sync_taps(t.w, Tail(ord), o)

RECURSIVE sync_pure(_, _, _, _, _, _)
\* gm is the global manifest as loaded when sync started
sync_pure(w, p, gm, local, ord, o) ==
    IF ord = << >> THEN [w |-> w, res |-> "ok"]
    ELSE IF Head(ord) \in DOMAIN gm.packages
         THEN sync_pure(w, p, gm, local, Tail(ord), o)
         ELSE LET spec == manifest_spec(Head(ord), local[Head(ord)])
                  r == add(Log(w, <<"add", spec, FALSE>>), p, spec, FALSE, o)
              IN  IF r.res # "ok" THEN r
                  ELSE sync_pure(r.w, p, gm, local, Tail(ord), o)

RECURSIVE sync_impure(_, _, _, _)
sync_impure(w, p, ord, o) ==
    IF ord = << >> THEN [w |-> w, res |-> "ok"]
    ELSE IF o.brew /\ is_package_installed(w, Head(ord))
         THEN sync_impure(w, p, Tail(ord), o)
         ELSE LET r == add(Log(w, <<"add", Head(ord), TRUE>>), p, Head(ord), TRUE, o)
              IN  IF r.res # "ok" THEN r
                  ELSE sync_impure(r.w, p, Tail(ord), o)

\* sync that re-runs the adds before it registers the taps
sync_packages_first(w, p, o, ordT, ordL, ordI) ==
    LET gm == w.gm
        local == IF w.lm[p].exists THEN w.lm[p].packages ELSE EmptyMap
        l == sync_pure(w, p, gm, local, ordL, o)
    IN  IF l.res # "ok" THEN l
        ELSE LET i == sync_impure(l.w, p, ordI, o)
             IN  IF i.res # "ok" THEN i ELSE sync_taps(i.w, ordT, o)

\* sync() run in project p; the three orders are the iteration orders of
\* the taps, of the local packages and of the impure section
sync(w, p, o, ordT, ordL, ordI) ==
    LET gm == w.gm
        local == IF w.lm[p].exists THEN w.lm[p].packages ELSE EmptyMap
        t == sync_taps(w, ordT, o)
    IN  IF t.res # "ok" THEN t
        ELSE LET l == sync_pure(t.w, p, gm, local, ordL, o)
             IN  IF l.res # "ok" THEN l
                 ELSE sync_impure(l.w, p, ordI, o)

----------------------------------------------------------------------------
(* upgrade (environment.rs) *)

\* brew upgrade: the formula stays installed and keeps its link state
brew_upgrade(w, f) == Log(w, <<"upgrade", f>>)

RECURSIVE upgrade_each(_, _)
\* the upgrade loops of the all-packages form; the results are ignored
upgrade_each(w, specs) ==
    IF specs = << >> THEN w
    ELSE upgrade_each(brew_upgrade(w, Head(specs)), Tail(specs))

\* upgrade(Some(pkg)) without the check that pkg is managed
upgrade_one_unchecked(w, p, pkg, o, upOk, ordL) ==
    LET local == w.lm[p]
        is_pure == local.exists /\ base_name(pkg) \in DOMAIN local.packages
        w1 == brew_upgrade(w, pkg)
    IN  IF ~o.brew \/ ~upOk THEN [w |-> w1, res |-> "upgrade_failed"]
        ELSE LET rb == IF is_pure
                       THEN rebuild_profile(w1, p, local.packages, ordL)
                       ELSE [w |-> w1, ok |-> TRUE]
             IN  IF ~rb.ok THEN [w |-> rb.w, res |-> "rebuild_failed"]
                 ELSE [w |-> generate_lock(generate_lock(rb.w, p, o), p, o),
                       res |-> "ok"]

\* upgrade(Some(pkg)) run in project p
upgrade_one(w, p, pkg, o, upOk, ordL) ==
    LET pkg_base == base_name(pkg)
        local == w.lm[p]
        is_pure == local.exists /\ pkg_base \in DOMAIN local.packages
        is_impure == pkg_base \in w.gm.impure
    IN  IF ~is_pure /\ ~is_impure THEN [w |-> w, res |-> "not_managed"]
        ELSE LET w1 == brew_upgrade(w, pkg)
             IN  IF ~o.brew \/ ~upOk THEN [w |-> w1, res |-> "upgrade_failed"]
                 ELSE LET rb == IF is_pure
                                THEN rebuild_profile(w1, p, local.packages, ordL)
                                ELSE [w |-> w1, ok |-> TRUE]
                      IN  IF ~rb.ok THEN [w |-> rb.w, res |-> "rebuild_failed"]
                          ELSE [w |-> generate_lock(generate_lock(rb.w, p, o), p, o),
                                res |-> "ok"]

\* upgrade_all that fails when the lock cannot be generated
upgrade_all_lock_fatal(w, p, o, ordL, ordI) ==
    LET local == w.lm[p]
        has_local == local.exists /\ DOMAIN local.packages # {}
        w1 == IF has_local
              THEN upgrade_each(w, [i \in DOMAIN ordL |->
                                       manifest_spec(ordL[i], local.packages[ordL[i]])])
              ELSE w
        w2 == upgrade_each(w1, ordI)
        rb == IF has_local THEN rebuild_profile(w2, p, local.packages, ordL)
              ELSE [w |-> w2, ok |-> TRUE]
    IN  IF ~rb.ok THEN [w |-> rb.w, res |-> "rebuild_failed"]
        ELSE IF has_local /\ ~o.infoOk THEN [w |-> rb.w, res |-> "lock_failed"]
        ELSE [w |-> generate_lock(rb.w, p, o), res |-> "ok"]

\* upgrade(None) run in project p
upgrade_all(w, p, o, ordL, ordI) ==
    LET local == w.lm[p]
        has_local == local.exists /\ DOMAIN local.packages # {}
        w1 == IF has_local
              THEN upgrade_each(w, [i \in DOMAIN ordL |->
                                       manifest_spec(ordL[i], local.packages[ordL[i]])])
              ELSE w
        w2 == upgrade_each(w1, ordI)
        rb == IF has_local THEN rebuild_profile(w2, p, local.packages, ordL)
              ELSE [w |-> w2, ok |-> TRUE]
    IN  IF ~rb.ok THEN [w |-> rb.w, res |-> "rebuild_failed"]
        ELSE [w |-> generate_lock(rb.w, p, o), res |-> "ok"]

\* upgrade(package) run in project p; ordL and ordI are the iteration
\* orders of the local packages and of the impure section
upgrade(w, p, package, o, upOk, ordL, ordI) ==
    IF package.some THEN upgrade_one(w, p, package.val, o, upOk, ordL)
    ELSE upgrade_all(w, p, o, ordL, ordI)

----------------------------------------------------------------------------

(* tap and untap (environment.rs) *)

tap(w, tap_name, o) ==
    IF ~o.brew THEN [w |-> w, res |-> "no_brew"]
    ELSE IF tap_name \in w.gm.taps THEN [w |-> w, res |-> "ok"]
    ELSE LET t == IF ~(o.listOk /\ is_tap_tapped(w, tap_name))
                  THEN brew_tap(w, tap_name, o)
                  ELSE [w |-> w, ok |-> TRUE]
         IN  IF ~t.ok THEN [w |-> t.w, res |-> "tap_failed"]
             ELSE [w |-> save_global(t.w, add_tap(w.gm, tap_name)), res |-> "ok"]

untap(w, tap_name, o) ==
    IF tap_name \notin w.gm.taps THEN [w |-> w, res |-> "not_tracked"]
    ELSE LET t == IF o.brew /\ o.listOk /\ is_tap_tapped(w, tap_name)
                  THEN brew_untap(w, tap_name, o)
                  ELSE [w |-> w, ok |-> o.brew]
         IN  IF ~t.ok THEN [w |-> t.w, res |-> "untap_failed"]
             ELSE [w |-> save_global(t.w, remove_tap(w.gm, tap_name)), res |-> "ok"]

----------------------------------------------------------------------------
(* The state machine: one action per command of the CLI *)

EmptyManifest == [exists |-> TRUE, packages |-> EmptyMap]

\* no call of a function that touches no file
NoCall == [fn |-> "none"]

\* an invocation that is not running
Idle == [pc |-> "idle", gm |-> DefaultGlobal, spec |-> << >>, impure |-> FALSE]
NoProcs == [i \in Projects |-> Idle]

\* empty manifests: no global manifest, and each project either has no
\* manifest or the empty one that init writes
Init ==
    /\ localm \in {lm \in [Projects -> {NoManifest, EmptyManifest}] :
                      \A p \in Projects \ {1} : lm[p] = NoManifest}
    /\ globalm = DefaultGlobal
    /\ profile = [p \in Projects |-> EmptyProfile]
    /\ lock = [p \in Projects |-> NoLock]
    /\ installed = {}
    /\ linked = {}
    /\ tapped = {}
    /\ nops = 0
    /\ procs = NoProcs
    /\ arg = NoCall
    /\ ret = NoCall

\* the state an operation leaves; one more command has run
Commit(r) ==
    /\ nops < MaxOps
    /\ nops' = nops + 1
    /\ localm' = r.w.lm
    /\ globalm' = r.w.gm
    /\ profile' = r.w.prof
    /\ lock' = r.w.lk
    /\ installed' = r.w.inst
    /\ linked' = r.w.lnk
    /\ tapped' = r.w.tpd
    /\ UNCHANGED <<procs, arg, ret>>

Orc(brew, instOk, unlinkOk, infoOk, tapOk, uninstOk) ==
    [brew |-> brew, instOk |-> instOk, unlinkOk |-> unlinkOk,
     infoOk |-> infoOk, tapOk |-> tapOk, uninstOk |-> uninstOk,
     listOk |-> TRUE]

\* manifest::init in project p
init(w, p) ==
    IF w.lm[p].exists THEN [w |-> w, res |-> "ok"]
    ELSE [w |-> save(w, p, EmptyMap), res |-> "ok"]

\* the install outcomes that differ on the formulas in S, in world w: the
\* formulas whose install succeeds
InstChoicesOf(w, S) == {Formulas \ F : F \in SUBSET (S \ w.inst)}

\* the outcomes of the external calls of an add, install or sync that
\* installs the formulas in S
AddOraclesOf(w, S) ==
    {Orc(FALSE, {}, TRUE, TRUE, TRUE, {})} \cup
    {Orc(TRUE, i, u, l, TRUE, {}) :
        i \in InstChoicesOf(w, S), u \in BOOLEAN, l \in BOOLEAN}

AddOracles(S) == AddOraclesOf(World, S)

(* The runs of each command from the current state: its inputs, the        *)
(* outcomes of its external calls, and what it returns                     *)

AddRuns(p, spec, impure) ==
    {[o |-> o, r |-> add(World, p, spec, impure, o)] : o \in AddOracles({spec})}

RemoveRuns(p, package) ==
    {[o |-> Orc(TRUE, {}, TRUE, l, TRUE, {}), ord |-> ord,
      r |-> remove(World, p, package, Orc(TRUE, {}, TRUE, l, TRUE, {}), ord)] :
        l \in BOOLEAN, ord \in remove_orders(World, p, package)}

GcRuns(p) ==
    {[o |-> Orc(TRUE, {}, TRUE, x[2], TRUE, x[1]), ord |-> x[4], cleanupOk |-> x[3],
      r |-> gc(World, p, Orc(TRUE, {}, TRUE, x[2], TRUE, x[1]), x[4], x[3])] :
        x \in (SUBSET ((DOMAIN globalm.gc) \cap installed)) \X BOOLEAN \X BOOLEAN
              \X Orders(DOMAIN globalm.gc)}

\* the formulas install() installs in project p
install_targets(p) ==
    {install_spec(lock[p], n, localm[p].packages[n]) : n \in DOMAIN localm[p].packages}

InstallRuns(p) ==
    {[o |-> x[1], ord |-> x[2], r |-> install(World, p, x[1], x[2])] :
        x \in AddOracles(install_targets(p)) \X Orders(DOMAIN localm[p].packages)}

\* the formulas sync() can install in project p
sync_targets(w, p) ==
    {manifest_spec(n, w.lm[p].packages[n]) : n \in DOMAIN w.lm[p].packages}
        \cup w.gm.impure

\* the outcomes and iteration orders of a sync() run in project p in world w
SyncInputsOf(w, p) ==
    {[o |-> [x[1] EXCEPT !.tapOk = x[2], !.listOk = x[6]],
      ordT |-> x[3], ordL |-> x[4], ordI |-> x[5]] :
        x \in AddOraclesOf(w, sync_targets(w, p)) \X BOOLEAN \X Orders(w.gm.taps)
              \X Orders(DOMAIN w.lm[p].packages) \X Orders(w.gm.impure)
              \X (IF w.gm.taps = {} THEN {TRUE} ELSE BOOLEAN)}

SyncRuns(p) ==
    {[in |-> i, r |-> sync(World, p, i.o, i.ordT, i.ordL, i.ordI)] :
        i \in SyncInputsOf(World, p)}

TapOracles ==
    {[Orc(b, {}, TRUE, TRUE, t, {}) EXCEPT !.listOk = l] :
        b \in BOOLEAN, t \in BOOLEAN, l \in BOOLEAN}

TapRuns(t) == {[o |-> o, r |-> tap(World, t, o)] : o \in TapOracles}
UntapRuns(t) == {[o |-> o, r |-> untap(World, t, o)] : o \in TapOracles}

\* the requests upgrade can get: every managed package, or one identifier
UpgradeRequests == {None} \cup {Some(s) : s \in Specs}

\* the outcomes and iteration orders of an upgrade run in project p
UpgradeRuns(p, package) ==
    {[o |-> x[1], upOk |-> x[2], ordL |-> x[3], ordI |-> x[4],
      r |-> upgrade(World, p, package, x[1], x[2], x[3], x[4])] :
        x \in {Orc(b, {}, TRUE, l, TRUE, {}) : b \in BOOLEAN, l \in BOOLEAN}
              \X BOOLEAN \X Orders(DOMAIN localm[p].packages)
              \X Orders(globalm.impure)}

\* the state a kill leaves when it hits rebuild_profile of project p right
\* after the profile directory was deleted
rebuild_killed(w, p) == [w EXCEPT !.prof[p] = EmptyProfile]

\* the states a kill inside rebuild_profile leaves in project p: of an
\* upgrade, which rebuilds from the manifest as it is, and of a pure remove
\* of package, which has saved the local manifest and nothing else yet
KillStates(p) ==
    {rebuild_killed(World, p)} \cup
    {rebuild_killed(save(World, p, MapDel(localm[p].packages, k)), p) :
        k \in {k \in DOMAIN localm[p].packages :
                  \E x \in Specs : /\ remove_tracked(globalm, x)
                                   /\ ~remove_is_impure(globalm, x)
                                   /\ k = IF x \in DOMAIN localm[p].packages
                                          THEN x ELSE base_name(x)}}

(* One action per command of the CLI *)

InitProject(p) == Commit(init(World, p))
Add(p, spec, impure) == \E run \in AddRuns(p, spec, impure) : Commit(run.r)
Remove(p, package) == \E run \in RemoveRuns(p, package) : Commit(run.r)
Gc(p) == \E run \in GcRuns(p) : Commit(run.r)
Install(p) == \E run \in InstallRuns(p) : Commit(run.r)
Sync(p) == \E run \in SyncRuns(p) : Commit(run.r)
Tap(t) == \E run \in TapRuns(t) : Commit(run.r)
Untap(t) == \E run \in UntapRuns(t) : Commit(run.r)
Upgrade(p, package) == \E run \in UpgradeRuns(p, package) : Commit(run.r)

\* the commands run in project 1
Next ==
    \/ InitProject(1)
    \/ \E spec \in Specs, impure \in BOOLEAN : Add(1, spec, impure)
    \/ \E package \in Specs : Remove(1, package)
    \/ Gc(1)
    \/ Install(1)
    \/ Sync(1)

Spec == Init /\ [][Next]_vars

----------------------------------------------------------------------------
(* Several initialised projects, taps, and changes made outside the tool *)

\* brew untap run by the user
ExternalUntap(t) ==
    /\ t \in tapped
    /\ Commit([w |-> [World EXCEPT !.tpd = @ \ {t}], res |-> "ok"])

\* brew tap run by the user
ExternalTap(t) ==
    /\ t \notin tapped
    /\ Commit([w |-> [World EXCEPT !.tpd = @ \cup {t}], res |-> "ok"])

\* brew uninstall run by the user
ExternalUninstall(f) ==
    /\ f \in installed
    /\ Commit([w |-> [World EXCEPT !.inst = @ \ {f}, !.lnk = @ \ {f}], res |-> "ok"])

\* the identifiers used where several projects run commands
SharedSpecs == {B}

InitShared ==
    /\ localm = [p \in Projects |-> EmptyManifest]
    /\ globalm = DefaultGlobal
    /\ profile = [p \in Projects |-> EmptyProfile]
    /\ lock = [p \in Projects |-> NoLock]
    /\ installed = {}
    /\ linked = {}
    /\ tapped = {}
    /\ nops = 0
    /\ procs = NoProcs
    /\ arg = NoCall
    /\ ret = NoCall

NextShared ==
    \/ \E p \in Projects, spec \in SharedSpecs, impure \in BOOLEAN : Add(p, spec, impure)
    \/ \E p \in Projects, package \in SharedSpecs : Remove(p, package)
    \/ \E p \in Projects : Gc(p)
    \/ \E p \in Projects : Sync(p)
    \/ \E t \in TapNames : Tap(t)
    \/ \E t \in TapNames : Untap(t)
    \/ \E t \in TapNames : ExternalUntap(t)
    \/ \E t \in TapNames : ExternalTap(t)
    \/ \E f \in SharedSpecs : ExternalUninstall(f)

SpecShared == InitShared /\ [][NextShared]_vars

\* the identifiers used where one project syncs a versioned and an
\* unversioned package with taps
SyncSpecs == {A1, B}

NextSync ==
    \/ InitProject(1)
    \/ \E spec \in SyncSpecs, impure \in BOOLEAN : Add(1, spec, impure)
    \/ \E package \in SyncSpecs : Remove(1, package)
    \/ Sync(1)
    \/ \E t \in TapNames : Tap(t)
    \/ \E t \in TapNames : ExternalUntap(t)
    \/ \E f \in SyncSpecs : ExternalUninstall(f)

SpecSync == Init /\ [][NextSync]_vars

\* project 1 syncs after project 2 removed a package both had declared
NextDrift ==
    \/ \E spec \in SyncSpecs, impure \in BOOLEAN : Add(1, spec, impure)
    \/ Add(2, A1, FALSE)
    \/ Remove(2, A1)
    \/ Sync(1)
    \/ \E t \in TapNames : Tap(t)
    \/ ExternalUninstall(B)

SpecDrift == InitShared /\ [][NextDrift]_vars

\* project 1 declares packages that project 2 removes and collects, and
\* installs them again from its manifest
NextClone ==
    \/ \E spec \in SyncSpecs : Add(1, spec, FALSE)
    \/ \E package \in SyncSpecs : Remove(2, package)
    \/ Gc(2)
    \/ Install(1)

SpecClone == InitShared /\ [][NextClone]_vars

\* one more gc() run in project p: ret keeps the names some gc() run so far
\* left in the gc section because their uninstall failed
GcStep(run) ==
    /\ localm' = run.r.w.lm
    /\ globalm' = run.r.w.gm
    /\ profile' = run.r.w.prof
    /\ lock' = run.r.w.lk
    /\ installed' = run.r.w.inst
    /\ linked' = run.r.w.lnk
    /\ tapped' = run.r.w.tpd
    /\ ret' = [fn |-> "gc",
               failed |-> (IF ret = NoCall THEN {} ELSE ret.failed)
                              \cup DOMAIN run.r.w.gm.gc]
    /\ UNCHANGED <<nops, procs, arg>>

GcAgain(p) == \E run \in GcRuns(p) : GcStep(run)

\* a gc() run in which the manager carries out the uninstall of f
GcUninstalls(p, f) == \E run \in GcRuns(p) : f \in run.o.uninstOk /\ GcStep(run)

\* at most MaxRuns adds and removes in project 1, and gc() run again and again
NextGc ==
    \/ \E spec \in SyncSpecs, impure \in BOOLEAN : nops < MaxRuns /\ Add(1, spec, impure)
    \/ \E package \in SyncSpecs : nops < MaxRuns /\ Remove(1, package)
    \/ GcAgain(1)

\* the uninstall of a name that the manager can uninstall succeeds in the end
SpecGc ==
    InitShared /\ [][NextGc]_vars /\ \A f \in Formulas : WF_vars(GcUninstalls(1, f))

\* the commands that work on the local manifest, run in project 1
NextLocal ==
    \/ InitProject(1)
    \/ \E spec \in Specs, impure \in BOOLEAN : Add(1, spec, impure)
    \/ \E package \in Specs : Remove(1, package)
    \/ Install(1)
    \/ \E package \in UpgradeRequests : Upgrade(1, package)

SpecLocal == Init /\ [][NextLocal]_vars

\* check run in project p: it changes nothing
Check(p) == Commit([w |-> World, res |-> check(World, p)])

\* two projects, the second one initialised, that add, remove and check
InitCheck ==
    /\ localm \in {lm \in [Projects -> {NoManifest, EmptyManifest}] :
                      lm[2] = EmptyManifest}
    /\ globalm = DefaultGlobal
    /\ profile = [p \in Projects |-> EmptyProfile]
    /\ lock = [p \in Projects |-> NoLock]
    /\ installed = {}
    /\ linked = {}
    /\ tapped = {}
    /\ nops = 0
    /\ procs = NoProcs
    /\ arg = NoCall
    /\ ret = NoCall

NextCheck ==
    \/ InitProject(1)
    \/ \E p \in Projects, spec \in SyncSpecs : Add(p, spec, FALSE)
    \/ \E p \in Projects, package \in SyncSpecs : Remove(p, package)
    \/ \E p \in Projects : Check(p)

SpecCheck == InitCheck /\ [][NextCheck]_vars

----------------------------------------------------------------------------
(* Commands that return success only *)

AddOk(p, spec, impure) ==
    \E run \in AddRuns(p, spec, impure) : run.r.res = "ok" /\ Commit(run.r)
RemoveOk(p, package) ==
    \E run \in RemoveRuns(p, package) : run.r.res = "ok" /\ Commit(run.r)
GcOk(p) == \E run \in GcRuns(p) : run.r.res = "ok" /\ Commit(run.r)
InstallOk(p) == \E run \in InstallRuns(p) : run.r.res = "ok" /\ Commit(run.r)
SyncOk(p) == \E run \in SyncRuns(p) : run.r.res = "ok" /\ Commit(run.r)

NextOk ==
    \/ InitProject(1)
    \/ \E spec \in Specs, impure \in BOOLEAN : AddOk(1, spec, impure)
    \/ \E package \in Specs : RemoveOk(1, package)
    \/ GcOk(1)
    \/ InstallOk(1)
    \/ SyncOk(1)

SpecOk == Init /\ [][NextOk]_vars

----------------------------------------------------------------------------
(* Two add commands that run at the same time, invocation i in project i.  *)
(* Each file read, file write and external command of add is one step; the *)
(* global manifest an invocation loaded stays in its memory until it saves *)

\* the package and the name add derives from its request
proc_package(m) == parse_package_spec(m.spec).package
proc_name(m) == base_name(proc_package(m))
proc_ver(m) ==
    LET parsed == parse_package_spec(m.spec)
    IN  IF parsed.version.some THEN parsed.version.val ELSE Star

\* the entry add makes in its in-memory global manifest
add_track(m) ==
    IF m.impure THEN add_impure(m.gm, proc_name(m))
    ELSE add_package(m.gm, proc_name(m), proc_ver(m))

\* a save that reads the global manifest again before it adds its entry
add_save_global_reloaded(w, m) == save_global(w, add_track([m EXCEPT !.gm = w.gm]))

\* the save of the in-memory global manifest, whatever the file holds
add_save_global(w, m) == save_global(w, add_track(m))

\* the state a step of invocation i leaves
Step(i, m, w) ==
    /\ procs' = [procs EXCEPT ![i] = m]
    /\ localm' = w.lm
    /\ globalm' = w.gm
    /\ profile' = w.prof
    /\ lock' = w.lk
    /\ installed' = w.inst
    /\ linked' = w.lnk
    /\ tapped' = w.tpd
    /\ UNCHANGED <<arg, ret>>

\* the checks, load_global and the eviction from the in-memory gc section
AddLoad(i, spec, impure) ==
    /\ procs[i].pc \in {"idle", "done"}
    /\ nops < MaxRuns
    /\ nops' = nops + 1
    /\ \E b \in BOOLEAN :
           IF add_precheck(World, i, impure, Orc(b, {}, TRUE, TRUE, TRUE, {})) # "ok"
           THEN Step(i, Idle, World)
           ELSE Step(i, [pc |-> "loaded", spec |-> spec, impure |-> impure,
                         gm |-> evict_gc(globalm,
                                    base_name(parse_package_spec(spec).package))],
                     World)

\* ensure_package; a failure ends the invocation
AddEnsure(i) ==
    /\ procs[i].pc = "loaded"
    /\ UNCHANGED nops
    /\ \E o \in AddOracles({proc_package(procs[i])}) :
           LET e == ensure_package(World, proc_package(procs[i]), procs[i].impure, o)
           IN  IF ~e.ok THEN Step(i, Idle, e.w)
               ELSE Step(i, [procs[i] EXCEPT !.pc = "ensured"], e.w)

\* a pure add links the package and saves the local manifest
AddSaveLocal(i) ==
    /\ procs[i].pc = "ensured"
    /\ ~procs[i].impure
    /\ UNCHANGED nops
    /\ LET m == procs[i]
           w1 == [World EXCEPT !.prof[i] = create_symlinks(@, proc_package(m))]
       IN  Step(i, [m EXCEPT !.pc = "local_saved"],
                save(w1, i, MapPut(w1.lm[i].packages, proc_name(m), proc_ver(m))))

\* the entry in the in-memory global manifest and save_global
AddSaveGlobal(i) ==
    /\ procs[i].pc = IF procs[i].impure THEN "ensured" ELSE "local_saved"
    /\ UNCHANGED nops
    /\ Step(i, [procs[i] EXCEPT !.pc = "saved", !.gm = add_track(procs[i])],
            add_save_global(World, procs[i]))

\* the dependency loop over the in-memory manifest, and the lock
AddFinish(i) ==
    /\ procs[i].pc = "saved"
    /\ UNCHANGED nops
    /\ \E u \in BOOLEAN, l \in BOOLEAN :
           LET o == Orc(TRUE, {}, u, l, TRUE, {})
               w1 == unlink_deps(World, procs[i].gm, Deps(proc_package(procs[i])), o)
           IN  Step(i, [procs[i] EXCEPT !.pc = "done"], generate_lock(w1, i, o))

InitConc == InitShared

NextConc ==
    \/ \E i \in Projects, spec \in SyncSpecs, impure \in BOOLEAN : AddLoad(i, spec, impure)
    \/ \E i \in Projects : AddEnsure(i)
    \/ \E i \in Projects : AddSaveLocal(i)
    \/ \E i \in Projects : AddSaveGlobal(i)
    \/ \E i \in Projects : AddFinish(i)

SpecConc == InitConc /\ [][NextConc]_vars

----------------------------------------------------------------------------
(* The functions that touch no file, called on their own *)

\* the raw identifiers: every string over a, 1 and @ of at most MaxLen
Idents == UNION {[1..n -> {"a", "1", "@"}] : n \in 0..MaxLen}

\* the in-memory manifests, with the casks section
Names == {A, B}
Maps(V) == UNION {[K -> V] : K \in SUBSET Names}
Manifests ==
    [packages : Maps({Star, <<"1">>}), impure : SUBSET Names, casks : SUBSET {A},
     gc : Maps({Star}), taps : SUBSET Names]

\* the profiles that create_symlinks builds from an empty bin directory
Profiles ==
    {EmptyProfile} \cup
    {create_symlinks(EmptyProfile, f) : f \in Formulas} \cup
    {create_symlinks(create_symlinks(EmptyProfile, f), g) : f, g \in Formulas}

\* the calls: parse_package_spec(s), on manifest m add_package(name, v)
\* and add_impure(name), one or both, followed by remove_package(name), and on
\* profile prof create_symlinks of f and g, once, twice and in both orders,
\* and the entry a pure add records for spec s
Calls ==
    {[fn |-> "parse", s |-> s] : s \in Idents} \cup
    {[fn |-> "edit", m |-> c[1], name |-> c[2], v |-> c[3], pure |-> c[4],
      impure |-> c[5]] :
        c \in {c \in Manifests \X Names \X {Star, <<"1">>} \X BOOLEAN \X BOOLEAN :
                  c[4] \/ c[5]}} \cup
    {[fn |-> "link", prof |-> c[1], f |-> c[2], g |-> c[3]] :
        c \in Profiles \X Formulas \X Formulas} \cup
    {[fn |-> "record", s |-> s] : s \in Idents}

InitPure ==
    /\ localm = [p \in Projects |-> NoManifest]
    /\ globalm = DefaultGlobal
    /\ profile = [p \in Projects |-> EmptyProfile]
    /\ lock = [p \in Projects |-> NoLock]
    /\ installed = {}
    /\ linked = {}
    /\ tapped = {}
    /\ nops = 0
    /\ procs = NoProcs
    /\ arg \in Calls
    /\ ret = NoCall

Returns(r) ==
    /\ ret = NoCall
    /\ ret' = r
    /\ UNCHANGED <<localm, globalm, profile, lock, installed, linked, tapped, nops,
                   procs, arg>>

Parse == arg.fn = "parse" /\ Returns(parse_package_spec(arg.s))

Edit ==
    /\ arg.fn = "edit"
    /\ LET m1 == IF arg.pure THEN add_package(arg.m, arg.name, arg.v) ELSE arg.m
           m2 == IF arg.impure THEN add_impure(m1, arg.name) ELSE m1
       IN  Returns(remove_package(m2, arg.name))

Link ==
    /\ arg.fn = "link"
    /\ Returns([once |-> create_symlinks(arg.prof, arg.f),
                twice |-> create_symlinks(create_symlinks(arg.prof, arg.f), arg.f),
                fg |-> create_symlinks(create_symlinks(arg.prof, arg.f), arg.g),
                gf |-> create_symlinks(create_symlinks(arg.prof, arg.g), arg.f)])

\* the formula a pure add installs for spec s and the entry it records
Record ==
    /\ arg.fn = "record"
    /\ LET parsed == parse_package_spec(arg.s)
       IN  Returns([package |-> parsed.package,
                    name |-> base_name(parsed.package),
                    ver |-> IF parsed.version.some THEN parsed.version.val ELSE Star])

NextPure == Parse \/ Edit \/ Link \/ Record

SpecPure == InitPure /\ [][NextPure]_vars

----------------------------------------------------------------------------
(* Properties *)

BaseNames(S) == {base_name(k) : k \in S}
\* the base names an entry of the gc section stands for
GcNames(gm) == BaseNames(DOMAIN gm.gc)
\* the sections of the global manifest that track base name n
SectionsOf(gm, n) ==
    {sec \in {"packages", "impure", "gc"} :
        \/ sec = "packages" /\ n \in BaseNames(DOMAIN gm.packages)
        \/ sec = "impure" /\ n \in BaseNames(gm.impure)
        \/ sec = "gc" /\ n \in GcNames(gm)}
AllBaseNames == BaseNames(Specs \cup Formulas)

\* the calls of kind k an operation made
CallsOf(r, k) == {i \in DOMAIN r.w.calls : r.w.calls[i][1] = k}

\* C1: in every reachable state no package, compared by base name, is
\* tracked in more than one of the packages, impure and gc sections of the
\* global manifest
C1_OneSection ==
    \A n \in AllBaseNames : Cardinality(SectionsOf(globalm, n)) <= 1

\* C2: for every name that is a key of the global packages or impure
\* section, a remove(name) that returns success leaves name a key of gc and
\* a key of neither packages nor impure
C2_RemoveMovesToGc ==
    \A p \in Projects :
    \A name \in (DOMAIN globalm.packages) \cup globalm.impure :
    \A run \in RemoveRuns(p, name) :
        run.r.res = "ok" =>
            /\ name \in DOMAIN run.r.w.gm.gc
            /\ name \notin DOMAIN run.r.w.gm.packages
            /\ name \notin run.r.w.gm.impure

\* C3: when the package of the spec has a gc entry, a successful add of the
\* spec leaves no gc entry of the package and leaves the package in exactly
\* one of the sections packages and impure
C3_AddRestores ==
    \A p \in Projects, spec \in Specs, impure \in BOOLEAN :
    \A run \in AddRuns(p, spec, impure) :
        (base_name(spec) \in GcNames(globalm) /\ run.r.res = "ok") =>
            /\ base_name(spec) \notin GcNames(run.r.w.gm)
            /\ Cardinality(SectionsOf(run.r.w.gm, base_name(spec))) = 1

\* the formulas an operation uninstalled
Uninstalled(r) == installed \ r.w.inst

\* C4: gc() evicts from the gc section exactly the names whose uninstall
\* succeeded in this run; a name whose uninstall failed keeps its entry and
\* its value, and packages, impure and taps are unchanged
C4_GcEvictsUninstalled ==
    \A p \in Projects : \A run \in GcRuns(p) :
        /\ DOMAIN run.r.w.gm.gc = (DOMAIN globalm.gc) \ Uninstalled(run.r)
        /\ \A k \in DOMAIN run.r.w.gm.gc : run.r.w.gm.gc[k] = globalm.gc[k]
        /\ run.r.w.gm.packages = globalm.packages
        /\ run.r.w.gm.impure = globalm.impure
        /\ run.r.w.gm.taps = globalm.taps

\* a gc() from this state uninstalls one name and fails on another
C4_Witness ==
    \E run \in GcRuns(1) :
        /\ (DOMAIN globalm.gc) \cap Uninstalled(run.r) # {}
        /\ DOMAIN run.r.w.gm.gc # {}

\* the cleanup is called once, after every uninstall attempt
CleanupLast(r) ==
    /\ Cardinality(CallsOf(r, "cleanup")) = 1
    /\ \A i \in CallsOf(r, "uninstall"), j \in CallsOf(r, "cleanup") : i < j

\* C5 as stated: every gc(), whatever the gc section holds when it starts,
\* calls the manager's cleanup once, after all its uninstall attempts
C5_AlwaysCleanup ==
    \A p \in Projects : \A run \in GcRuns(p) : CleanupLast(run.r)

\* C5 amended: a gc() that starts with a non-empty gc section attempts the
\* uninstall of each of its names and then calls cleanup once; a gc() that
\* starts with an empty gc section makes no call at all
C5_CleanupWhenNonEmpty ==
    \A p \in Projects : \A run \in GcRuns(p) :
        IF DOMAIN globalm.gc # {}
        THEN /\ CleanupLast(run.r)
             /\ {run.r.w.calls[i][2] : i \in CallsOf(run.r, "uninstall")}
                    = DOMAIN globalm.gc
        ELSE run.r.w.calls = << >> /\ run.r.res = "ok"

\* a gc() from this state has two names to uninstall
C5_Witness ==
    \E run \in GcRuns(1) : Cardinality(CallsOf(run.r, "uninstall")) >= 2

\* add left the local manifest, the global manifest, the profile and the lock
\* as they were
AddChangedNothing(r) ==
    /\ r.w.lm = localm
    /\ r.w.gm = globalm
    /\ r.w.prof = profile
    /\ r.w.lk = lock

\* C8: an add without the external manager, or a pure add without a local
\* manifest, returns an error, makes no install call and leaves the local
\* manifest, the global manifest, the profile and the lock unchanged; an
\* impure add whose external calls succeed returns success without a local
\* manifest
C8_AddPreconditions ==
    \A p \in Projects, spec \in Specs, impure \in BOOLEAN :
    \A run \in AddRuns(p, spec, impure) :
        /\ (~run.o.brew \/ (~impure /\ ~localm[p].exists)) =>
              /\ run.r.res # "ok"
              /\ CallsOf(run.r, "install") = {}
              /\ AddChangedNothing(run.r)
        /\ (/\ impure /\ ~localm[p].exists /\ run.o.brew
            /\ (spec \in installed \/ spec \in run.o.instOk)) =>
              run.r.res = "ok"

\* outside a project, with packages installed and tracked: a pure add is
\* refused and an impure add succeeds
C8_Witness ==
    /\ ~localm[1].exists
    /\ installed # {}
    /\ globalm.impure # {}
    /\ \E spec \in Specs : \E run \in AddRuns(1, spec, FALSE) :
          run.o.brew /\ run.r.res = "no_manifest"
    /\ \E spec \in Specs : \E run \in AddRuns(1, spec, TRUE) :
          spec \notin installed /\ run.r.res = "ok"

\* C9: an add whose external install call fails returns an error and leaves
\* the persisted local and global manifests as they were: a gc entry of the
\* package is still there
C9_InstallFailureKeepsManifests ==
    \A p \in Projects, spec \in Specs, impure \in BOOLEAN :
    \A run \in AddRuns(p, spec, impure) :
        (/\ add_precheck(World, p, impure, run.o) = "ok"
         /\ spec \notin installed
         /\ spec \notin run.o.instOk) =>
            /\ run.r.res # "ok"
            /\ CallsOf(run.r, "install") # {}
            /\ run.r.w.lm = localm
            /\ run.r.w.gm = globalm

\* an add of a package that has a gc entry fails at the install
C9_Witness ==
    \E spec \in Specs, impure \in BOOLEAN : \E run \in AddRuns(1, spec, impure) :
        /\ base_name(spec) \in DOMAIN globalm.gc
        /\ CallsOf(run.r, "install") # {}
        /\ run.r.res = "install_failed"

\* the manifest entry a spec asks for: its base name and the requested
\* version, "*" without one
RequestedEntry(spec) ==
    CASE spec = A -> [name |-> <<"a">>, version |-> <<"*">>]
      [] spec = A1 -> [name |-> <<"a">>, version |-> <<"1">>]
      [] spec = B -> [name |-> <<"b">>, version |-> <<"*">>]

\* C10: after a successful pure add(spec) the local manifest and the global
\* packages section both map the base name of the spec to the requested
\* version ("*" without one), and the profile has a link for every file of
\* the bin directory of the installed package
C10_PureAddRecords ==
    \A p \in Projects, spec \in Specs : \A run \in AddRuns(p, spec, FALSE) :
        run.r.res = "ok" =>
            LET e == RequestedEntry(spec)
                lm == run.r.w.lm[p]
                gm == run.r.w.gm
            IN  /\ lm.exists
                /\ e.name \in DOMAIN lm.packages
                /\ lm.packages[e.name] = e.version
                /\ e.name \in DOMAIN gm.packages
                /\ gm.packages[e.name] = e.version
                /\ \A f \in BinFiles(spec) :
                      /\ f \in DOMAIN run.r.w.prof[p]
                      /\ run.r.w.prof[p][f] = <<spec, f>>

\* a successful pure add of a versioned spec over links of another package
C10_Witness ==
    \E run \in AddRuns(1, A1, FALSE) :
        /\ run.r.res = "ok"
        /\ "x" \in DOMAIN profile[1]
        /\ profile[1]["x"] # <<A1, "x">>

\* the world an operation left, as the next operation finds it
After(r) == [r.w EXCEPT !.calls = << >>]

\* the calls that change the manager or a manifest
MutatingCalls(r) ==
    UNION {CallsOf(r, k) : k \in {"install", "unlink", "tap", "save", "save_global"}}

\* C6: a sync() run right after a successful sync(), in the same project
\* and with the external manager as it was, makes no install, unlink, tap
\* or manifest-write call
C6_SyncIdempotent ==
    \A p \in Projects : \A run \in SyncRuns(p) :
        run.r.res = "ok" =>
            \A i \in SyncInputsOf(After(run.r), p) :
                i.o.brew = run.in.o.brew =>
                    LET again == sync(After(run.r), p, i.o, i.ordT, i.ordL, i.ordI)
                    IN  MutatingCalls(again) = {} /\ again.res = "ok"

\* two worlds with the same manifests, profiles, locks and manager
SameState(w1, w2) == [w1 EXCEPT !.calls = << >>] = [w2 EXCEPT !.calls = << >>]

C11_ImpureAddFrame ==
    \A p \in Projects, spec \in Specs : \A run \in AddRuns(p, spec, TRUE) :
        run.r.res = "ok" =>
            /\ run.r.w.lm = localm
            /\ run.r.w.gm.packages = globalm.packages
            /\ run.r.w.prof = profile
            /\ run.r.w.gm.impure = globalm.impure \cup {base_name(spec)}

\* a successful impure add of a package that is new to the impure section,
\* in a project with a pure package and a profile
C11_Witness ==
    \E spec \in Specs : \E run \in AddRuns(1, spec, TRUE) :
        /\ run.r.res = "ok"
        /\ base_name(spec) \notin globalm.impure
        /\ DOMAIN localm[1].packages # {}
        /\ DOMAIN profile[1] # {}
        /\ CallsOf(run.r, "install") # {}

\* C12: after successful commands only, every name of the impure section
\* has an installed and linked formula, and every entry of the packages
\* section has its formula installed and unlinked
C12_SectionsMatchManager ==
    /\ \A n \in globalm.impure :
           \E f \in Formulas : base_name(f) = n /\ f \in installed /\ f \in linked
    /\ \A n \in DOMAIN globalm.packages :
           LET f == manifest_spec(n, globalm.packages[n])
           IN  f \in installed /\ f \notin linked

\* the names the sections packages, impure and gc of gm have as keys
SectionKeys(gm) == (DOMAIN gm.packages) \cup gm.impure \cup (DOMAIN gm.gc)

\* operation r called unlink on formula f
UnlinkCalled(r, f) == \E i \in CallsOf(r, "unlink") : r.w.calls[i][2] = f

\* C13: an add that reaches its dependency step calls unlink on a listed
\* dependency exactly when neither the dependency's name nor its base name
\* is a key of packages, impure or gc in the global manifest this add
\* wrote; and add fails only on its checks or on the install, never on a
\* failing unlink
C13_UnlinkUntrackedDeps ==
    \A p \in Projects, spec \in Specs, impure \in BOOLEAN :
    \A run \in AddRuns(p, spec, impure) :
        /\ run.r.res = "ok" =>
               \A d \in Range(Deps(spec)) :
                   UnlinkCalled(run.r, d) <=>
                       /\ d \notin SectionKeys(run.r.w.gm)
                       /\ base_name(d) \notin SectionKeys(run.r.w.gm)
        /\ \/ run.r.res = "ok"
           \/ ~run.o.brew
           \/ ~impure /\ ~localm[p].exists
           \/ spec \notin installed /\ spec \notin run.o.instOk

\* an add that succeeds while unlink fails: one dependency is unlinked,
\* and a gc entry exists that keeps its own package from being unlinked
C13_Witness ==
    \E spec \in Specs, impure \in BOOLEAN : \E run \in AddRuns(1, spec, impure) :
        /\ run.r.res = "ok"
        /\ ~run.o.unlinkOk
        /\ \E d \in Range(Deps(spec)) : UnlinkCalled(run.r, d)
        /\ DOMAIN globalm.gc # {}

\* the section the stated rule of remove picks for request x: impure when
\* only impure matches, or when both match and impure alone matches exactly
RuleTakesImpure(gm, x) ==
    LET pure_match == x \in DOMAIN gm.packages \/ base_name(x) \in DOMAIN gm.packages
        impure_match == x \in gm.impure \/ base_name(x) \in gm.impure
    IN  /\ impure_match
        /\ pure_match => /\ x \in gm.impure
                         /\ x \notin DOMAIN gm.packages
                         /\ ~has_at(x)

\* C14: a successful remove(x) takes an entry out of impure exactly when
\* the stated rule picks impure (no match in packages, or an exact impure
\* match against a base-name packages match), and otherwise moves the
\* packages entry; on equal matches and on versioned requests it is the
\* packages entry that moves
C14_RemovePrefersPackages ==
    \A p \in Projects, x \in Specs : \A run \in RemoveRuns(p, x) :
        run.r.res = "ok" =>
            IF RuleTakesImpure(globalm, x)
            THEN /\ run.r.w.gm.impure # globalm.impure
                 /\ run.r.w.gm.packages = globalm.packages
            ELSE /\ run.r.w.gm.impure = globalm.impure
                 /\ run.r.w.gm.packages # globalm.packages

\* C15: remove(x) with neither x nor its base name a key of the global
\* packages or impure section returns an error, makes no external call and
\* no file write, and leaves manifests, profiles, locks and manager as
\* they were
C15_RemoveUntracked ==
    \A p \in Projects, x \in Specs : \A run \in RemoveRuns(p, x) :
        ({x, base_name(x)} \cap ((DOMAIN globalm.packages) \cup globalm.impure) = {}) =>
            /\ run.r.res # "ok"
            /\ run.r.w.calls = << >>
            /\ SameState(run.r.w, World)

\* a remove of a name that is left in gc and in a project's local manifest
\* only
C15_Witness ==
    \E p \in Projects, x \in Specs : \E run \in RemoveRuns(p, x) :
        /\ base_name(x) \in DOMAIN localm[p].packages
        /\ base_name(x) \in GcNames(globalm)
        /\ {x, base_name(x)} \cap ((DOMAIN globalm.packages) \cup globalm.impure) = {}
        /\ run.r.res = "not_tracked"

\* the formulas operation r called uninstall on
UninstallCalls(r) == {r.w.calls[i][2] : i \in CallsOf(r, "uninstall")}

\* C16: add, remove, sync, install and upgrade make no uninstall call, and
\* every uninstall call of a gc() is for a key the gc section had when
\* that gc() started
C16_UninstallOnlyInGc ==
    \A p \in Projects :
        /\ \A spec \in Specs, impure \in BOOLEAN :
               \A run \in AddRuns(p, spec, impure) : UninstallCalls(run.r) = {}
        /\ \A x \in Specs : \A run \in RemoveRuns(p, x) : UninstallCalls(run.r) = {}
        /\ \A run \in SyncRuns(p) : UninstallCalls(run.r) = {}
        /\ \A run \in InstallRuns(p) : UninstallCalls(run.r) = {}
        /\ \A package \in UpgradeRequests :
               \A run \in UpgradeRuns(p, package) : UninstallCalls(run.r) = {}
        /\ \A run \in GcRuns(p) : UninstallCalls(run.r) \subseteq DOMAIN globalm.gc

\* a gc() that uninstalls a versioned entry while other packages are
\* tracked and installed
C16_Witness ==
    \E run \in GcRuns(1) :
        /\ A1 \in UninstallCalls(run.r)
        /\ A1 \notin run.r.w.inst
        /\ DOMAIN globalm.packages # {}

\* the links a profile holds when it is built from exactly these packages
LinksOf(prof, packages) ==
    /\ DOMAIN prof =
           UNION {BinFiles(manifest_spec(n, packages[n])) : n \in DOMAIN packages}
    /\ \A l \in DOMAIN prof :
           \E n \in DOMAIN packages :
               /\ prof[l][1] = manifest_spec(n, packages[n])
               /\ l \in BinFiles(prof[l][1])

\* C17: after a successful remove(x) of a package that the local manifest
\* declares and the global packages section tracks, the local manifest no
\* longer has the package and the profile holds exactly the links of the
\* packages the local manifest still has
C17_RemoveRebuildsProfile ==
    \A p \in Projects, x \in Specs : \A run \in RemoveRuns(p, x) :
        (/\ run.r.res = "ok"
         /\ base_name(x) \in DOMAIN localm[p].packages
         /\ base_name(x) \in DOMAIN globalm.packages) =>
            /\ base_name(x) \notin DOMAIN run.r.w.lm[p].packages
            /\ LinksOf(run.r.w.prof[p], run.r.w.lm[p].packages)

\* the formulas operation r called install on
InstallCalls(r) == {r.w.calls[i][2] : i \in CallsOf(r, "install")}

\* the formula C18 states for local package n of project p: the formula of
\* the lock entry when the lock has one, else the manifest spec
StatedFormula(p, n) ==
    IF lock[p].exists /\ n \in DOMAIN lock[p].packages
    THEN lock[p].packages[n]
    ELSE IF localm[p].packages[n] = Star THEN n
         ELSE format_at(n, localm[p].packages[n])

\* C18: a successful install() leaves, for every local package n, the
\* stated formula installed, calls install on no formula but the stated
\* ones that were not installed (one that came in as a dependency of an
\* earlier one needs no call), and records n with the manifest's version
\* in the global packages section
C18_InstallPrefersLock ==
    \A p \in Projects : \A run \in InstallRuns(p) :
        run.r.res = "ok" =>
            /\ \A n \in DOMAIN localm[p].packages :
                   /\ StatedFormula(p, n) \in run.r.w.inst
                   /\ n \in DOMAIN run.r.w.gm.packages
                   /\ run.r.w.gm.packages[n] = localm[p].packages[n]
            /\ InstallCalls(run.r) \subseteq
                   {StatedFormula(p, n) : n \in DOMAIN localm[p].packages} \ installed
            /\ \A n \in DOMAIN localm[p].packages :
                   StatedFormula(p, n) \in installed
                       \/ \E f \in InstallCalls(run.r) :
                              StatedFormula(p, n) \in {f} \cup Range(Deps(f))

\* a successful install() that installs the formula of a lock entry which
\* differs from the manifest spec
C18_Witness ==
    \E run \in InstallRuns(1) : \E n \in DOMAIN localm[1].packages :
        /\ run.r.res = "ok"
        /\ lock[1].exists /\ n \in DOMAIN lock[1].packages
        /\ lock[1].packages[n] # manifest_spec(n, localm[1].packages[n])
        /\ lock[1].packages[n] \in InstallCalls(run.r)

\* C19: when a lock file exists at the start of install(), the lock after
\* install, successful or failed, is the one before it and install makes
\* no lock write; no install writes the lock of another project
C19_InstallKeepsLock ==
    \A p \in Projects : \A run \in InstallRuns(p) :
        /\ lock[p].exists =>
               /\ run.r.w.lk[p] = lock[p]
               /\ CallsOf(run.r, "save_lock") = {}
        /\ \A q \in Projects \ {p} : run.r.w.lk[q] = lock[q]

\* a successful install() with a lock that a regeneration would change
C19_Witness ==
    \E run \in InstallRuns(1) :
        /\ run.r.res = "ok"
        /\ run.o.infoOk
        /\ lock[1].exists
        /\ DOMAIN localm[1].packages # {}
        /\ lock[1] # lock_of(localm[1].packages, run.o)

\* C20: check exits with status 1 exactly when the project has no local
\* manifest, or a local package is not a key of the global packages
\* section, or the profile bin directory is missing or empty; otherwise it
\* returns success
C20_CheckStatus ==
    \A p \in Projects :
        /\ check(World, p) \in {"ok", "exit1"}
        /\ check(World, p) = "exit1" <=>
               \/ ~localm[p].exists
               \/ \E n \in DOMAIN localm[p].packages : n \notin DOMAIN globalm.packages
               \/ DOMAIN profile[p] = {}

\* one project passes check while another, with a profile, fails it only
\* because a local package has left the global packages section
C20_Witness ==
    \E p \in Projects, q \in Projects :
        /\ check(World, p) = "ok"
        /\ check(World, q) = "exit1"
        /\ localm[q].exists
        /\ DOMAIN profile[q] # {}

\* the same oracle with the other outcome of the manager's info queries
OtherInfo(o) == [o EXCEPT !.infoOk = ~@]

\* two results that agree on the returned result, the local manifests, the
\* global manifest and the profiles
SameButLock(r1, r2) ==
    /\ r1.res = r2.res
    /\ r1.w.lm = r2.w.lm
    /\ r1.w.gm = r2.w.gm
    /\ r1.w.prof = r2.w.prof

\* C21: add, remove, gc, install and upgrade return the same result and
\* leave the same local manifests, global manifest and profiles whether
\* the lock generation at their end succeeds or fails
C21_LockFailureNonFatal ==
    \A p \in Projects :
        /\ \A spec \in Specs, impure \in BOOLEAN : \A run \in AddRuns(p, spec, impure) :
               SameButLock(run.r, add(World, p, spec, impure, OtherInfo(run.o)))
        /\ \A x \in Specs : \A run \in RemoveRuns(p, x) :
               SameButLock(run.r, remove(World, p, x, OtherInfo(run.o), run.ord))
        /\ \A run \in GcRuns(p) :
               SameButLock(run.r, gc(World, p, OtherInfo(run.o), run.ord, run.cleanupOk))
        /\ \A run \in InstallRuns(p) :
               SameButLock(run.r, install(World, p, OtherInfo(run.o), run.ord))
        /\ \A package \in UpgradeRequests : \A run \in UpgradeRuns(p, package) :
               SameButLock(run.r, upgrade(World, p, package, OtherInfo(run.o),
                                          run.upOk, run.ordL, run.ordI))

\* an upgrade of every package that succeeds while the lock generation
\* fails, where a successful generation would have written another lock
C21_Witness ==
    \E run \in UpgradeRuns(1, None) :
        /\ run.r.res = "ok"
        /\ ~run.o.infoOk
        /\ DOMAIN localm[1].packages # {}
        /\ upgrade(World, 1, None, OtherInfo(run.o), run.upOk, run.ordL, run.ordI).w.lk
               # run.r.w.lk

\* the lock of project p in result r has exactly the local packages as keys
LockMatchesLocal(r, p) ==
    DOMAIN r.w.lk[p].packages = DOMAIN r.w.lm[p].packages

\* C22: after a successful pure add or remove that changes the package set
\* of the local manifest, with every info query of the manager succeeding,
\* the packages of the lock file have exactly the keys of the local
\* manifest, whatever the size of the resulting manifest
C22_LockFollowsLocal ==
    \A p \in Projects, x \in Specs :
        /\ \A run \in AddRuns(p, x, FALSE) :
               (/\ run.r.res = "ok"
                /\ run.o.infoOk
                /\ DOMAIN run.r.w.lm[p].packages # DOMAIN localm[p].packages)
                   => LockMatchesLocal(run.r, p)
        /\ \A run \in RemoveRuns(p, x) :
               (/\ run.r.res = "ok"
                /\ run.o.infoOk
                /\ DOMAIN run.r.w.lm[p].packages # DOMAIN localm[p].packages)
                   => LockMatchesLocal(run.r, p)

\* the base names tracked by the global manifest and not declared in the
\* local manifest of project p
GlobalOnly(w, p) ==
    (BaseNames(DOMAIN w.gm.packages) \cup BaseNames(w.gm.impure) \cup GcNames(w.gm))
        \ DOMAIN w.lm[p].packages

\* the lock of project p in w holds the local packages of p and nothing else
LocalOnlyLock(w, p) ==
    /\ DOMAIN w.lk[p].packages = DOMAIN w.lm[p].packages
    /\ \A nd \in w.lk[p].deps : nd[1] \in DOMAIN w.lm[p].packages
    /\ w.lk[p].impure = {}
    /\ \A n \in GlobalOnly(w, p) :
           /\ n \notin DOMAIN w.lk[p].packages
           /\ n \notin w.lk[p].impure
           /\ \A nd \in w.lk[p].deps : nd[1] # n

\* the lock generation of project p wrote the lock file of w
WroteLock(w, p) == <<"save_lock", p>> \in Range(w.calls)

\* C23: every lock written by generate_lock, called directly or at the end
\* of a pure or impure add, has a packages entry for exactly the packages of
\* the local manifest, only dependencies of local packages, and an empty
\* impure section: a package tracked only in the global manifest is no entry
C23_LockOnlyLocal ==
    \A p \in Projects :
        /\ \A i \in BOOLEAN :
               LET w2 == generate_lock(World, p, Orc(TRUE, {}, TRUE, i, TRUE, {}))
               IN  WroteLock(w2, p) => LocalOnlyLock(w2, p)
        /\ \A x \in SyncSpecs, imp \in BOOLEAN :
               \A run \in AddRuns(p, x, imp) :
                   WroteLock(run.r.w, p) => LocalOnlyLock(run.r.w, p)

\* project 1 locks a@1, whose dependency b is tracked only in the global
\* manifest (declared by project 2)
C23_Witness ==
    LET w2 == generate_lock(World, 1, Orc(TRUE, {}, TRUE, TRUE, TRUE, {}))
    IN  /\ WroteLock(w2, 1)
        /\ DOMAIN w2.lk[1].packages = {<<"a">>}
        /\ <<"b">> \in GlobalOnly(w2, 1)
        /\ <<<<"a">>, B>> \in w2.lk[1].deps

\* name is managed for an upgrade in project p: its base name is declared
\* in the local manifest or is a key of the impure section
Managed(p, name) ==
    \/ localm[p].exists /\ base_name(name) \in DOMAIN localm[p].packages
    \/ base_name(name) \in globalm.impure

\* C24: upgrade(name) calls the upgrade of the manager, for name, exactly
\* when the base name of name is declared in the local manifest or is a key
\* of the impure section; otherwise it returns an error, calls nothing and
\* changes no manifest and no profile
C24_UpgradeOnlyManaged ==
    \A p \in Projects, name \in Specs :
        \A run \in UpgradeRuns(p, Some(name)) :
            /\ Managed(p, name) <=> <<"upgrade", name>> \in Range(run.r.w.calls)
            /\ ~Managed(p, name) =>
                   /\ run.r.res = "not_managed"
                   /\ run.r.w.calls = << >>
                   /\ SameState(run.r.w, World)

\* a is managed only as an impure package and is upgraded, while b, which is
\* tracked in the global manifest but not managed in project 2, is refused
C24_Witness ==
    /\ <<"a">> \in globalm.impure
    /\ ~Managed(2, B)
    /\ <<"b">> \in BaseNames(DOMAIN globalm.packages) \cup GcNames(globalm)
    /\ \E run \in UpgradeRuns(2, Some(A)) :
           run.r.res = "ok" /\ <<"upgrade", A>> \in Range(run.r.w.calls)
    /\ \E run \in UpgradeRuns(2, Some(B)) : run.r.res = "not_managed"

\* every name of the taps section is registered with the manager
TapsRegistered(w) == w.gm.taps \subseteq w.tpd

\* C25: from a state whose taps section holds only registered names, every
\* tap and untap call, succeeding or failing, leaves every name of the taps
\* section registered, and a successful untap leaves its name neither in the
\* taps section nor registered; so it is after any sequence of such calls
C25_TapsMirrorManager ==
    TapsRegistered(World) =>
        \A t \in TapNames :
            /\ \A run \in TapRuns(t) : TapsRegistered(run.r.w)
            /\ \A run \in UntapRuns(t) :
                   /\ TapsRegistered(run.r.w)
                   /\ run.r.res = "ok" =>
                          t \notin run.r.w.gm.taps /\ t \notin run.r.w.tpd

\* C26: an add saves its in-memory global manifest, the document it loaded
\* plus its own entry, whatever the file holds by then; so of two adds that
\* run at the same time the later save overwrites the earlier one, and two
\* successful adds of different packages can leave one package untracked
C26_SaveOverwrites ==
    [][\A i \in Projects :
          (procs[i].pc # "saved" /\ procs'[i].pc = "saved") =>
              /\ globalm' = add_track(procs[i])
              /\ procs'[i].gm = globalm']_vars

\* both adds returned Ok, and the package the first saver added is tracked
\* in no section of the global manifest while the other's package is
C26_Witness ==
    \E i \in Projects, j \in Projects :
        /\ procs[i].pc = "done" /\ procs[j].pc = "done"
        /\ proc_name(procs[i]) # proc_name(procs[j])
        /\ SectionsOf(procs[i].gm, proc_name(procs[i])) # {}
        /\ SectionsOf(globalm, proc_name(procs[i])) = {}
        /\ SectionsOf(globalm, proc_name(procs[j])) # {}

\* the runs of install() in project p from world k
InstallRunsFrom(k, p) ==
    {[o |-> x[1], ord |-> x[2], r |-> install(k, p, x[1], x[2])] :
        x \in AddOraclesOf(k, {install_spec(k.lk[p], n, k.lm[p].packages[n]) :
                                  n \in DOMAIN k.lm[p].packages})
              \X Orders(DOMAIN k.lm[p].packages)}

\* profile prof holds the links of the formulas in F and nothing else
LinksExactly(prof, F) ==
    /\ DOMAIN prof = UNION {BinFiles(f) : f \in F}
    /\ \A l \in DOMAIN prof : prof[l][2] = l /\ prof[l][1] \in F /\ l \in BinFiles(prof[l][1])

\* C27 as stated: after a kill between the deletion of the profile and the
\* re-creation of its links, a successful install() leaves the links of the
\* manifest spec of every package of the local manifest
C27_InstallRestoresManifestLinks ==
    \A p \in Projects : localm[p].exists =>
        \A k \in KillStates(p) : \A run \in InstallRunsFrom(k, p) :
            run.r.res = "ok" =>
                LinksExactly(run.r.w.prof[p],
                             {manifest_spec(n, k.lm[p].packages[n]) :
                                 n \in DOMAIN k.lm[p].packages})

\* C27: after a kill between the deletion of the profile and the re-creation
\* of its links, a successful install() leaves, for every package of the
\* local manifest, the links of the formula install resolves for it: the
\* formula of the lock entry when there is one, else the manifest spec
C27_InstallRestoresLinks ==
    \A p \in Projects : localm[p].exists =>
        \A k \in KillStates(p) : \A run \in InstallRunsFrom(k, p) :
            run.r.res = "ok" =>
                LinksExactly(run.r.w.prof[p],
                             {install_spec(k.lk[p], n, k.lm[p].packages[n]) :
                                 n \in DOMAIN k.lm[p].packages})

\* the profile of project 1 held links and was deleted by the kill, and a
\* successful install() that had nothing to install links two packages again
C27_Witness ==
    /\ DOMAIN profile[1] # {}
    /\ \E run \in InstallRunsFrom(rebuild_killed(World, 1), 1) :
           /\ run.r.res = "ok"
           /\ InstallCalls(run.r) = {}
           /\ Cardinality(DOMAIN localm[1].packages) = 2
           /\ run.r.w.prof[1] = profile[1]

\* s has an @ and v is what follows its rightmost @
AfterLastAt(s, v) ==
    \E i \in 1..Len(s) :
        /\ s[i] = "@"
        /\ \A j \in (i + 1)..Len(s) : s[j] # "@"
        /\ v = SubSeq(s, i + 1, Len(s))

\* C28: for every raw identifier s, parse_package_spec(s) returns s
\* unchanged as the canonical spec, and as version None exactly when s has
\* no @, and otherwise the text after the rightmost @, which may be empty
C28_ParseKeepsSpec ==
    (arg.fn = "parse" /\ ret # NoCall) =>
        /\ ret.package = arg.s
        /\ ret.version = None <=> \A i \in 1..Len(arg.s) : arg.s[i] # "@"
        /\ ret.version # None =>
               ret.version.some /\ AfterLastAt(arg.s, ret.version.val)

\* an identifier with two @ and nothing after the last one was parsed
C28_Witness ==
    /\ arg.fn = "parse" /\ ret # NoCall
    /\ Cardinality(AtPositions(arg.s)) = 2
    /\ arg.s[1] # "@"
    /\ ret.version = Some(<< >>)

\* C29: for every in-memory manifest and every name, add_package(name, v)
\* or add_impure(name) or both, followed by remove_package(name), leave name
\* a key of neither packages nor impure, and leave gc, taps and every entry
\* of another name as they were
C29_RemovePackageClears ==
    (arg.fn = "edit" /\ ret # NoCall) =>
        /\ arg.name \notin DOMAIN ret.packages
        /\ arg.name \notin ret.impure
        /\ ret.gc = arg.m.gc
        /\ ret.taps = arg.m.taps
        /\ \A n \in Names \ {arg.name} :
               /\ n \in DOMAIN ret.packages <=> n \in DOMAIN arg.m.packages
               /\ n \in DOMAIN ret.packages => ret.packages[n] = arg.m.packages[n]
               /\ n \in ret.impure <=> n \in arg.m.impure
               /\ n \in ret.casks <=> n \in arg.m.casks

\* name was added to both sections of a manifest that has it in gc and taps
\* and has another package, and was removed
C29_Witness ==
    /\ arg.fn = "edit" /\ ret # NoCall
    /\ arg.pure /\ arg.impure
    /\ arg.name \in DOMAIN arg.m.gc /\ arg.name \in arg.m.taps
    /\ DOMAIN ret.packages # {} /\ ret.impure # {}

\* the positions of the adds sync() re-ran, pure or impure
AddsOf(r, impure) ==
    {i \in DOMAIN r.w.calls : r.w.calls[i][1] = "add" /\ r.w.calls[i][3] = impure}

\* formula n was installed when sync() reached position i of its calls
InstalledBefore(r, o, i, n) ==
    \/ n \in installed
    \/ \E j \in 1..(i - 1) :
           /\ r.w.calls[j][1] = "install"
           /\ r.w.calls[j][2] \in o.instOk
           /\ n \in {r.w.calls[j][2]} \cup Range(Deps(r.w.calls[j][2]))

\* the specs of the local packages of project p that are no key of the
\* packages section of the global manifest
Unregistered(p) ==
    {manifest_spec(n, localm[p].packages[n]) :
        n \in (DOMAIN localm[p].packages) \ DOMAIN globalm.packages}

\* C30: in one sync() every tap registration call comes before every add
\* and every install call, and every pure add before every impure add; a
\* pure add is re-run only for local packages that are no key of the global
\* packages section, and an impure add only for impure packages the manager
\* does not report as installed; a sync() that returns Ok has re-run them
\* all, each once; and after a failing tap registration nothing is
\* installed
C30_SyncOrder ==
    \A p \in Projects : \A run \in SyncRuns(p) :
        LET r == run.r
            o == run.in.o
            c == r.w.calls
        IN  /\ \A i \in CallsOf(r, "tap"), j \in CallsOf(r, "install") \cup CallsOf(r, "add") :
                   i < j
            /\ \A i \in AddsOf(r, FALSE), j \in AddsOf(r, TRUE) : i < j
            /\ \A i \in AddsOf(r, FALSE) : c[i][2] \in Unregistered(p)
            /\ \A i \in AddsOf(r, TRUE) :
                   /\ c[i][2] \in globalm.impure
                   /\ ~(o.brew /\ InstalledBefore(r, o, i, c[i][2]))
            /\ r.res = "ok" =>
                   /\ {c[i][2] : i \in AddsOf(r, FALSE)} = Unregistered(p)
                   /\ Cardinality(AddsOf(r, FALSE)) = Cardinality(Unregistered(p))
                   /\ \A n \in globalm.impure :
                          \/ Cardinality({i \in AddsOf(r, TRUE) : c[i][2] = n}) = 1
                          \/ /\ InstalledBefore(r, o, Len(c) + 1, n)
                             /\ \A i \in AddsOf(r, TRUE) : c[i][2] # n
            /\ r.res = "tap_failed" =>
                   CallsOf(r, "install") \cup CallsOf(r, "add") = {}

\* one sync() registers a tap, re-runs a pure add and an impure add and
\* installs a package, and another one stops at the tap registration
C30_Witness ==
    /\ \E run \in SyncRuns(1) :
           /\ run.r.res = "ok"
           /\ CallsOf(run.r, "tap") # {}
           /\ AddsOf(run.r, FALSE) # {}
           /\ AddsOf(run.r, TRUE) # {}
           /\ CallsOf(run.r, "install") # {}
    /\ \E run \in SyncRuns(1) :
           run.r.res = "tap_failed" /\ Unregistered(1) # {}


\* C31: create_symlinks is idempotent and order-independent: linking a package
\* twice gives the profile of linking it once, and linking two packages in
\* either order gives the same profile, each link name with the same target
C31_LinkIdempotentCommutative ==
    (arg.fn = "link" /\ ret # NoCall) =>
        /\ ret.twice = ret.once
        /\ ret.fg = ret.gf

\* linking the same package twice gives the profile of linking it once
C31_Idempotent ==
    (arg.fn = "link" /\ ret # NoCall) => ret.twice = ret.once


\* C32: gc() never uninstalls a formula whose base name is, when that gc()
\* starts, a key of the packages or impure section of the global manifest
C32_GcSparesTracked ==
    \A p \in Projects : \A run \in GcRuns(p) :
        \A f \in UninstallCalls(run.r) :
            /\ base_name(f) \notin BaseNames(DOMAIN globalm.packages)
            /\ base_name(f) \notin BaseNames(globalm.impure)


\* C33: remove is all-or-nothing over the two manifests: a remove that
\* returns an error at any step leaves the local and the global manifest
\* unchanged, and a remove that succeeds leaves the package out of the local
\* manifest and gives its base name an entry in the gc section
C33_RemoveAllOrNothing ==
    \A p \in Projects, package \in Specs : \A run \in RemoveRuns(p, package) :
        /\ run.r.res # "ok" =>
               /\ run.r.w.lm = localm
               /\ run.r.w.gm = globalm
        /\ run.r.res = "ok" =>
               /\ package \notin DOMAIN run.r.w.lm[p].packages
               /\ base_name(package) \notin DOMAIN run.r.w.lm[p].packages
               /\ base_name(package) \in GcNames(run.r.w.gm)


\* C34: whenever add or install returns, with success or with an error,
\* every formula that the command installed through the manager and that is
\* installed when it returns is tracked, by base name, in the packages,
\* impure or gc section of the persisted global manifest
C34_InstalledTracked ==
    \A p \in Projects :
        /\ \A spec \in Specs, impure \in BOOLEAN : \A run \in AddRuns(p, spec, impure) :
               \A f \in InstallCalls(run.r) \cap run.r.w.inst :
                   base_name(f) \in BaseNames(SectionKeys(run.r.w.gm))
        /\ \A run \in InstallRuns(p) :
               \A f \in InstallCalls(run.r) \cap run.r.w.inst :
                   base_name(f) \in BaseNames(SectionKeys(run.r.w.gm))

\* whenever add returns, every formula it installed is tracked
C34_AddInstalledTracked ==
    \A p \in Projects, spec \in Specs, impure \in BOOLEAN :
        \A run \in AddRuns(p, spec, impure) :
            \A f \in InstallCalls(run.r) \cap run.r.w.inst :
                base_name(f) \in BaseNames(SectionKeys(run.r.w.gm))


\* the runs of remove(package) in project p from world k
RemoveRunsFrom(k, p, package) ==
    {[o |-> Orc(TRUE, {}, TRUE, l, TRUE, {}), ord |-> ord,
      r |-> remove(k, p, package, Orc(TRUE, {}, TRUE, l, TRUE, {}), ord)] :
        l \in BOOLEAN, ord \in remove_orders(k, p, package)}

\* C35: the key under which remove places a package in the gc section is the
\* formula spec that add passed to the install of that package, for pure and
\* impure packages and for versioned and unversioned specs, whether the
\* package is removed by its spec or by its base name
C35_GcKeyIsInstalledSpec ==
    \A p \in Projects, spec \in Specs, impure \in BOOLEAN :
    \A a \in AddRuns(p, spec, impure) :
        a.r.res = "ok" =>
            \A package \in {spec, base_name(spec)} :
            \A run \in RemoveRunsFrom(a.r.w, p, package) :
                run.r.res = "ok" =>
                    /\ spec \in DOMAIN run.r.w.gm.gc
                    /\ (DOMAIN run.r.w.gm.gc) \ (DOMAIN a.r.w.gm.gc) \subseteq {spec}

\* the same for pure adds in states where no name is tracked twice
C35_PureGcKey ==
    \A p \in Projects, spec \in Specs :
    \A a \in AddRuns(p, spec, FALSE) :
        (a.r.res = "ok" /\ base_name(spec) \notin globalm.impure) =>
            \A package \in {spec, base_name(spec)} :
            \A run \in RemoveRunsFrom(a.r.w, p, package) :
                run.r.res = "ok" =>
                    /\ spec \in DOMAIN run.r.w.gm.gc
                    /\ (DOMAIN run.r.w.gm.gc) \ (DOMAIN a.r.w.gm.gc) \subseteq {spec}


\* C36: for every spec a pure add accepts, the spec rebuilt from the recorded
\* manifest entry (name when the version is "*", else name@version) equals
\* the spec that add installed, also for identifiers with more than one @
C36_EntryRebuildsSpec ==
    (arg.fn = "record" /\ ret # NoCall) =>
        manifest_spec(ret.name, ret.ver) = ret.package

\* the same for identifiers with at most one @
C36_OneAtRebuildsSpec ==
    (arg.fn = "record" /\ ret # NoCall /\ Cardinality(AtPositions(arg.s)) <= 1) =>
        manifest_spec(ret.name, ret.ver) = ret.package


\* C37: after a successful sync() in a project whose local manifest is not
\* empty, check succeeds: every local package is a key of the global
\* packages section and the profile of the project has at least one link
C37_SyncThenCheck ==
    \A p \in Projects : \A run \in SyncRuns(p) :
        (run.r.res = "ok" /\ localm[p].exists /\ DOMAIN localm[p].packages # {}) =>
            /\ check(run.r.w, p) = "ok"
            /\ DOMAIN run.r.w.lm[p].packages \subseteq DOMAIN run.r.w.gm.packages
            /\ DOMAIN run.r.w.prof[p] # {}

\* after such a sync() every local package is a key of the global packages
C37_SyncTracksLocal ==
    \A p \in Projects : \A run \in SyncRuns(p) :
        (run.r.res = "ok" /\ localm[p].exists /\ DOMAIN localm[p].packages # {}) =>
            DOMAIN run.r.w.lm[p].packages \subseteq DOMAIN run.r.w.gm.packages


\* no gc() run adds a key to the gc section, and a gc() run that finds the
\* section empty leaves it empty
C38_GcNeverGrows ==
    \A p \in Projects : \A run \in GcRuns(p) :
        DOMAIN run.r.w.gm.gc \subseteq DOMAIN globalm.gc

\* the manager can uninstall every name of the gc section
C38_Uninstallable == DOMAIN globalm.gc \subseteq installed

C38_Empty == DOMAIN globalm.gc = {}

\* C38: when finitely many adds and removes are issued and the uninstall of
\* every name of the gc section succeeds in the end when retried, repeated
\* gc() runs reach an empty gc section that stays empty; and no gc() run ever
\* adds a name to the gc section
C38_GcDrains ==
    /\ []C38_GcNeverGrows
    /\ ([]C38_Uninstallable => <>[]C38_Empty)

\* the gc section is empty after a gc() run had left a name in it whose
\* uninstall failed
C38_Witness ==
    /\ ret # NoCall
    /\ ret.failed # {}
    /\ C38_Empty
    /\ nops = MaxRuns

====
